---- MODULE Spec2Model ----
(***************************************************************************)
(* L-Mul: the approximate bfloat16 multiplier of rtl/py_lmul.py, its       *)
(* array (rtl/numpy_lmul.py) and tensor (rtl/pytorch_lmul.py) restatements,*)
(* the bfloat16 codec of utils/floats.py, the matmul adapters, and the     *)
(* two hardware testers of rtl/lmul_tester.py: the host steps of           *)
(* test_batch and the generated Verilog testbenches, stepped one rising    *)
(* clock edge at a time against a device known by its port contract.       *)
(*                                                                         *)
(* A 16-bit encoded value is a natural number below 2^16; a 32-bit float   *)
(* is its IEEE-754 bit pattern, kept as two 16-bit words [hi, lo].         *)
(***************************************************************************)
EXTENDS Integers, Sequences, FiniteSets, TLC

VARIABLES
    a_bf16, b_bf16,         \* scalar kernel: the operand pair of the call
    ret_ab, ret_ba,         \* scalar kernel: <<lmul(a,b)>>, <<lmul(b,a)>>, <<>> before the call
    ret_bits,               \* network kernel: <<lmul_bits(a,b)>> as packed pattern and returned float, <<>> before the call
    batch_a, batch_b,       \* vectorized kernels: the two operand arrays
    out_py, out_np, out_pt, \* vectorized kernels: per-implementation result arrays, <<>> before the call
    c_kind,                 \* codec: what the chain of conversions starts from, "float" or "bf16"
    c_floats, c_codes,      \* codec: the floats and the 16-bit codes of the chain, in order
    bulk_in,                \* bulk encoders: the input array of floats
    enc_py, enc_np, enc_pt, \* bulk encoders: per-implementation code arrays, <<>> before the call
    mm_a, mm_b,             \* matmul adapters: the operand matrices, as sequences of rows
    mm_np, mm_pt,           \* matmul adapters: outcome of each adapter's call
    harness,                \* host: which tester class runs, "single" or "parallel"
    test_pairs, num_tests,  \* host: the stimulus pairs handed to test_batch and their number at the call
    degrees,                \* host: number of device instances of the parallel tester, 0 for the single one
    h_pc,                   \* host: position of test_batch
    compile_rc, sim_rc,     \* host: exit status of the build and of the simulation, <<>> before the step
    sim_stdout,             \* host: the simulator's standard output, one entry per line
    ret,                    \* host: outcome of test_batch
    dut_latency, dut_busy,  \* single harness: the device's latency and busy time after an acceptance, in clock edges
    dut_stuck,              \* single harness: TRUE for a device that never raises i_ready
    accept_writes,          \* single harness: number of assignments to first_accept_cycle after the initialisation
    pc, wait_left,          \* single harness: position of the testbench's main block, edges left of a repeat
    edges,                  \* single harness: rising clock edges simulated so far
    rstn, i_valid, i_a, i_b,             \* single harness: testbench regs driving the device
    test_idx, result_idx, results,       \* single harness: drive index, capture index, captured outputs
    cycle, first_accept_cycle, last_output_cycle, started, \* single harness: performance counters
    o_valid_prev, inputs_started,        \* single harness: regs of the capture block
    pipe, busy_left,        \* single harness: the device's result pipeline and remaining busy edges
    accepted,               \* single harness: per stimulus, the edges at which the device accepted it
    result_of,              \* single harness: per captured output, the stimulus it was computed from
    o_valid_before,         \* single harness: o_valid as it was at the previous clock edge
    p_latency,              \* parallel harness: the latency of the even-numbered device instances, in clock edges
    p_skew,                 \* parallel harness: the extra latency of the odd-numbered instances, in clock edges
    p_pc, p_wait_left,      \* parallel harness: position of the testbench's main block, edges left of the repeat
    p_edges,                \* parallel harness: rising clock edges simulated so far
    p_rstn, p_i_valid, p_o_ready,        \* parallel harness: rstn and the i_valid, o_ready vectors, by instance
    p_i_a, p_i_b,           \* parallel harness: the operand arrays, by position 0..total_ops-1
    p_results, result_count, current_index, \* parallel harness: captured outputs, capture index, drive index
    p_pipe,                 \* parallel harness: the result pipeline of each instance
    presented,              \* parallel harness: per round, what the main block put on each instance's ports
    p_result_of,            \* parallel harness: per captured output, the position it was computed from
    p_o_valid_before        \* parallel harness: o_valid of each instance at the previous clock edge

kvars == <<a_bf16, b_bf16, ret_ab, ret_ba, ret_bits>>
bvars == <<batch_a, batch_b, out_py, out_np, out_pt>>
cvars == <<c_kind, c_floats, c_codes>>
evars == <<bulk_in, enc_py, enc_np, enc_pt>>
mvars == <<mm_a, mm_b, mm_np, mm_pt>>
host_args == <<harness, test_pairs, num_tests, degrees>>
hvars == <<host_args, h_pc, compile_rc, sim_rc, sim_stdout, ret>>
svars == <<dut_latency, dut_busy, dut_stuck, accept_writes, pc, wait_left, edges,
           rstn, i_valid, i_a, i_b, test_idx, result_idx, results,
           cycle, first_accept_cycle, last_output_cycle, started,
           o_valid_prev, inputs_started, pipe, busy_left,
           accepted, result_of, o_valid_before>>
pvars == <<p_latency, p_skew, p_pc, p_wait_left, p_edges, p_rstn, p_i_valid, p_o_ready,
           p_i_a, p_i_b, p_results, result_count, current_index, p_pipe,
           presented, p_result_of, p_o_valid_before>>
vars == <<kvars, bvars, cvars, evars, mvars, hvars, svars, pvars>>

\* ---------------------------------------------------------------- bounds

\* Operand exponents are sampled within ExpRadius of the pivots 0, 64, 127,
\* 191 and 255; operand mantissas within MantRadius of 0, 64 and 127.
ExpRadius == 1
MantRadius == 0
\* Longest operand array handed to a vectorized kernel or a bulk encoder.
MaxLen == 2
\* Longest chain of alternating encode/decode conversions of one value.
MaxConv == 3
\* Largest extent of a matrix dimension handed to a matmul adapter.
MaxDim == 2

\* ------------------------------------------------------- program constants

BF16_FIELD_MASK == 32767
BF16_OFFSET_MOD == 16512
BF16_MANTISSA_BITS == 7

\* ------------------------------------------------------------- bit algebra

\* The bitwise operators recurse through functions: an application
\* evaluates its arguments once, also inside ENABLED.
bit_and[x \in Nat, y \in Nat] ==
    IF x = 0 \/ y = 0 THEN 0
    ELSE (x % 2) * (y % 2) + 2 * bit_and[x \div 2, y \div 2]
BitAnd(x, y) == bit_and[x, y]

bit_or[x \in Nat, y \in Nat] ==
    IF x = 0 THEN y
    ELSE IF y = 0 THEN x
    ELSE (IF x % 2 = 1 \/ y % 2 = 1 THEN 1 ELSE 0) + 2 * bit_or[x \div 2, y \div 2]
BitOr(x, y) == bit_or[x, y]

bit_xor[x \in Nat, y \in Nat] ==
    IF x = 0 THEN y
    ELSE IF y = 0 THEN x
    ELSE ((x + y) % 2) + 2 * bit_xor[x \div 2, y \div 2]
BitXor(x, y) == bit_xor[x, y]

pow2[n \in Nat] == IF n = 0 THEN 1 ELSE 2 * pow2[n - 1]
Pow2(n) == pow2[n]

Shr(x, n) == x \div Pow2(n)
Shl(x, n) == x * Pow2(n)

\* Integer widths of the array and tensor element types.  U32 reduces modulo
\* 2^32 half-word by half-word, every intermediate value staying below 2^31.
U16(x) == x % 65536
U32(x) == ((x \div 65536) % 65536) * 65536 + (x % 65536)

\* ---------------------------------------------------------- scalar kernel

\* if (a_exp == 0) or (b_exp == 0)
zero_or_sub_and(a_exp, b_exp) == (a_exp = 0) /\ (b_exp = 0)
zero_or_sub(a_exp, b_exp) == (a_exp = 0) \/ (b_exp = 0)

\* Select output field from the 2-bit carry.
field_select_wrap(carry2, low_bits) ==
    IF carry2 = 0 THEN 0 ELSE low_bits
field_select_overflow_on_three(carry2, low_bits) ==
    IF carry2 = 0 THEN 0
    ELSE IF carry2 = 3 THEN 32767
    ELSE low_bits
field_select_max_finite(carry2, low_bits) ==
    IF carry2 = 0 THEN 0
    ELSE IF carry2 = 1 THEN low_bits
    ELSE 32639
field_select_saturate_normal(carry2, low_bits) ==
    IF carry2 = 0 THEN 0 ELSE 32767
field_select_low_on_underflow(carry2, low_bits) ==
    IF carry2 >= 2 THEN 32767 ELSE low_bits
field_select(carry2, low_bits) ==
    IF carry2 = 0 THEN 0
    ELSE IF carry2 = 1 THEN low_bits
    ELSE 32767

\* Sign: XOR, but zero if result is zero.
out_sign_b_only(field_sel, a, b) ==
    IF field_sel = 0 THEN 0 ELSE BitAnd(Shr(b, 15), 1)
out_sign_a_only(field_sel, a, b) ==
    IF field_sel = 0 THEN 0 ELSE BitAnd(Shr(a, 15), 1)
out_sign_raw_xor(field_sel, a, b) ==
    BitAnd(Shr(BitXor(a, b), 15), 1)
out_sign_of(field_sel, a, b) ==
    IF field_sel = 0 THEN 0 ELSE BitAnd(Shr(BitXor(a, b), 15), 1)

lmul(a, b) ==
    LET a_fld == BitAnd(a, 32767)
        b_fld == BitAnd(b, 32767)
        a_exp == BitAnd(Shr(a_fld, 7), 255)
        b_exp == BitAnd(Shr(b_fld, 7), 255)
        OFFSET_MOD == 16512
        sum_full == a_fld + b_fld + OFFSET_MOD
        carry2 == BitAnd(Shr(sum_full, 15), 3)
        low_bits == BitAnd(sum_full, 32767)
        field_sel == field_select(carry2, low_bits)
        out_sign == out_sign_of(field_sel, a, b)
    IN  IF zero_or_sub(a_exp, b_exp) THEN 0
        ELSE BitOr(Shl(out_sign, 15), field_sel)

\* ------------------------------------------------------------ operand sets

Near(x, pivots, r) == \E p \in pivots : x - p <= r /\ p - x <= r
ExpSamples == {e \in 0..255 : Near(e, {0, 64, 127, 191, 255}, ExpRadius)}
MantSamples == {m \in 0..127 : Near(m, {0, 64, 127}, MantRadius)}
Pack16(s, e, m) == s * 32768 + e * 128 + m
Operands == {Pack16(s, e, m) : s \in {0, 1}, e \in ExpSamples, m \in MantSamples}

\* ------------------------------------------------- scalar kernel: machine

BatchIdle ==
    /\ batch_a = <<>> /\ batch_b = <<>>
    /\ out_py = <<>> /\ out_np = <<>> /\ out_pt = <<>>

CodecIdle ==
    /\ c_kind = "idle" /\ c_floats = <<>> /\ c_codes = <<>>

BulkIdle ==
    /\ bulk_in = <<>>
    /\ enc_py = <<>> /\ enc_np = <<>> /\ enc_pt = <<>>

NotCalled == [status |-> "none"]

MatmulIdle ==
    /\ mm_a = <<>> /\ mm_b = <<>>
    /\ mm_np = NotCalled /\ mm_pt = NotCalled

HostIdle ==
    /\ harness = "none" /\ h_pc = "none"
    /\ test_pairs = <<>> /\ num_tests = 0 /\ degrees = 0
    /\ compile_rc = <<>> /\ sim_rc = <<>>
    /\ sim_stdout = <<>> /\ ret = NotCalled

SingleIdle ==
    /\ dut_latency = 0 /\ dut_busy = 0
    /\ dut_stuck = FALSE /\ accept_writes = 0
    /\ pc = "none" /\ wait_left = 0 /\ edges = 0
    /\ rstn = FALSE /\ i_valid = FALSE /\ i_a = 0 /\ i_b = 0
    /\ test_idx = 0 /\ result_idx = 0 /\ results = <<>>
    /\ cycle = 0 /\ first_accept_cycle = 0 /\ last_output_cycle = 0
    /\ started = FALSE /\ o_valid_prev = FALSE /\ inputs_started = FALSE
    /\ pipe = <<>> /\ busy_left = 0
    /\ accepted = <<>> /\ result_of = <<>> /\ o_valid_before = FALSE

ParallelIdle ==
    /\ p_latency = 0 /\ p_skew = 0 /\ p_pc = "none" /\ p_wait_left = 0 /\ p_edges = 0
    /\ p_rstn = FALSE /\ p_i_valid = <<>> /\ p_o_ready = <<>>
    /\ p_i_a = <<>> /\ p_i_b = <<>>
    /\ p_results = <<>> /\ result_count = 0 /\ current_index = 0
    /\ p_pipe = <<>> /\ presented = <<>> /\ p_result_of = <<>>
    /\ p_o_valid_before = <<>>

HarnessIdle == HostIdle /\ SingleIdle /\ ParallelIdle

Init ==
    /\ a_bf16 \in Operands
    /\ b_bf16 \in Operands
    /\ ret_ab = <<>>
    /\ ret_ba = <<>>
    /\ ret_bits = <<>>
    /\ BatchIdle /\ CodecIdle /\ BulkIdle /\ MatmulIdle /\ HarnessIdle

\* result = lmul(a, b)
CallLmul ==
    /\ ret_ab = <<>>
    /\ ret_ab' = <<lmul(a_bf16, b_bf16)>>
    /\ UNCHANGED <<a_bf16, b_bf16, ret_ba, ret_bits, bvars, cvars, evars, mvars, hvars, svars, pvars>>

\* result = lmul(b, a): the same call with the operands exchanged
CallLmulSwapped ==
    /\ ret_ba = <<>>
    /\ ret_ba' = <<lmul(b_bf16, a_bf16)>>
    /\ UNCHANGED <<a_bf16, b_bf16, ret_ab, ret_bits, bvars, cvars, evars, mvars, hvars, svars, pvars>>

Next == CallLmul \/ CallLmulSwapped

Spec == Init /\ [][Next]_vars

\* ------------------------------------------- data model of the encoded value

SignBit(v) == (v \div 32768) % 2
FieldOf(v) == v % 32768
ExponentField(v) == (v % 32768) \div 128
\* Top two bits [16:15] of the 17-bit sum fieldA + fieldB + BiasOffset.
CarrySelector(a, b) == (FieldOf(a) + FieldOf(b) + 16512) \div 32768
SumLowBits(a, b) == (FieldOf(a) + FieldOf(b) + 16512) % 32768

\* ------------------------------------------------------ scalar kernel claims

\* C2: for all 16-bit a and b, lmul(a, b) == lmul(b, a): once both calls
\* have returned, the two results are the same 16-bit pattern.
C2_Commutative ==
    (ret_ab # <<>> /\ ret_ba # <<>>) => ret_ab[1] = ret_ba[1]

\* C2 witness: both calls returned a negative, nonzero product of two
\* distinct operands of opposite sign.
C2_Witness ==
    /\ ret_ab # <<>> /\ ret_ba # <<>>
    /\ a_bf16 # b_bf16
    /\ SignBit(a_bf16) = 0 /\ SignBit(b_bf16) = 1
    /\ FieldOf(a_bf16) # FieldOf(b_bf16)
    /\ ret_ab[1] > 32768

\* C3: when at least one operand has a zero exponent field (zero or
\* subnormal, either sign), lmul(a, b) is exactly 0x0000.
C3_ZeroExponentGivesZero ==
    (ret_ab # <<>> /\ (ExponentField(a_bf16) = 0 \/ ExponentField(b_bf16) = 0))
        => ret_ab[1] = 0

\* C3 witness: a negative subnormal times a large positive normal returned.
C3_Witness ==
    /\ ret_ab # <<>>
    /\ ExponentField(a_bf16) = 0 /\ FieldOf(a_bf16) # 0 /\ SignBit(a_bf16) = 1
    /\ ExponentField(b_bf16) >= 254 /\ SignBit(b_bf16) = 0

\* C4: if the Field (low 15 bits) of lmul(a, b) is 0 then its sign bit is 0:
\* 0x8000 is never returned, whatever the input signs.
C4_NoSignedZero ==
    (ret_ab # <<>> /\ FieldOf(ret_ab[1]) = 0) => SignBit(ret_ab[1]) = 0

\* C4 witness: two normal operands of opposite sign whose sum is in the
\* normal range with all low 15 bits zero: the raw sign XOR is 1, the Field 0.
C4_Witness ==
    /\ ret_ab # <<>>
    /\ ExponentField(a_bf16) # 0 /\ ExponentField(b_bf16) # 0
    /\ SignBit(a_bf16) # SignBit(b_bf16)
    /\ CarrySelector(a_bf16, b_bf16) = 1
    /\ FieldOf(ret_ab[1]) = 0

\* C5: when the CarrySelector of fieldA + fieldB + 0x4080 is 2 or 3, the
\* Field of lmul(a, b) is 0x7FFF.
C5_OverflowSaturates ==
    (ret_ab # <<>> /\ CarrySelector(a_bf16, b_bf16) \in {2, 3})
        => FieldOf(ret_ab[1]) = 32767

\* C5 witness: an overflowing pair whose wrapped low bits are not 0x7FFF,
\* with a negative product.
C5_Witness ==
    /\ ret_ab # <<>>
    /\ CarrySelector(a_bf16, b_bf16) >= 2
    /\ SumLowBits(a_bf16, b_bf16) # 32767
    /\ SignBit(a_bf16) # SignBit(b_bf16)
    /\ ret_ab[1] = 65535

\* C22: the Field returned on overflow, 0x7FFF, is the largest value of the
\* 15-bit Field and not a finite bfloat16 encoding: when the CarrySelector
\* is 2 or 3 and both exponent fields are nonzero, the exponent portion
\* (bits [14:7]) of lmul(a, b) is 0xFF and the mantissa 0x7F.
C22_SaturatedIsAllOnes ==
    (ret_ab # <<>> /\ CarrySelector(a_bf16, b_bf16) \in {2, 3}
        /\ ExponentField(a_bf16) # 0 /\ ExponentField(b_bf16) # 0) =>
        /\ ExponentField(ret_ab[1]) = 255
        /\ ret_ab[1] % 128 = 127

\* C22 witness: two positive finite operands overflow to 0x7FFF.
C22_Witness ==
    /\ ret_ab # <<>>
    /\ CarrySelector(a_bf16, b_bf16) \in {2, 3}
    /\ ExponentField(a_bf16) \in 1..254 /\ ExponentField(b_bf16) \in 1..254
    /\ SignBit(a_bf16) = 0 /\ SignBit(b_bf16) = 0
    /\ ret_ab[1] = 32767

\* C22 as stated: the saturated result is a finite encoding, its exponent
\* portion is not the all-ones exponent of infinity and NaN.
C22_SaturatedIsFinite ==
    (ret_ab # <<>> /\ CarrySelector(a_bf16, b_bf16) \in {2, 3}
        /\ ExponentField(a_bf16) # 0 /\ ExponentField(b_bf16) # 0)
        => ExponentField(ret_ab[1]) # 255

\* C23: when both exponent fields are nonzero and the CarrySelector of
\* fieldA + fieldB + 0x4080 is 1, the Field of lmul(a, b) is the low 15
\* bits of that sum, fieldA + fieldB - 0x3F80, and when that Field is
\* nonzero the sign bit is the XOR of the operands' sign bits.
C23_NormalCase ==
    (ret_ab # <<>> /\ ExponentField(a_bf16) # 0 /\ ExponentField(b_bf16) # 0
        /\ CarrySelector(a_bf16, b_bf16) = 1) =>
        /\ FieldOf(ret_ab[1]) = SumLowBits(a_bf16, b_bf16)
        /\ FieldOf(ret_ab[1]) = FieldOf(a_bf16) + FieldOf(b_bf16) - 16256
        /\ (FieldOf(ret_ab[1]) # 0 =>
               SignBit(ret_ab[1]) = (SignBit(a_bf16) + SignBit(b_bf16)) % 2)

\* C23 witness: a negative times a positive normal operand, the sum in the
\* normal range, a nonzero Field other than the saturated one.
C23_Witness ==
    /\ ret_ab # <<>>
    /\ ExponentField(a_bf16) # 0 /\ ExponentField(b_bf16) # 0
    /\ CarrySelector(a_bf16, b_bf16) = 1
    /\ SignBit(a_bf16) = 1 /\ SignBit(b_bf16) = 0
    /\ FieldOf(ret_ab[1]) \notin {0, 32767}
    /\ SignBit(ret_ab[1]) = 1

\* C24: when the CarrySelector of fieldA + fieldB + 0x4080 is 0, that is
\* fieldA + fieldB < 0x3F80, lmul(a, b) is 0x0000 whatever the signs.
C24_UnderflowGivesZero ==
    (ret_ab # <<>> /\ CarrySelector(a_bf16, b_bf16) = 0) =>
        /\ FieldOf(a_bf16) + FieldOf(b_bf16) < 16256
        /\ ret_ab[1] = 0

\* C24 witness: two small normal operands of opposite sign whose sum
\* underflows with nonzero low bits.
C24_Witness ==
    /\ ret_ab # <<>>
    /\ ExponentField(a_bf16) # 0 /\ ExponentField(b_bf16) # 0
    /\ SignBit(a_bf16) # SignBit(b_bf16)
    /\ CarrySelector(a_bf16, b_bf16) = 0
    /\ SumLowBits(a_bf16, b_bf16) # 0
    /\ ret_ab[1] = 0

\* ------------------------------------------------ array-vectorized kernel
\* Every array expression of the kernel is elementwise: *_lane is the value
\* the expressions take at one index, the masks being that index's entries.

\* sum_full = a_fld.astype(np.uint32) + b_fld.astype(np.uint32) + BF16_OFFSET_MOD
np_sum_full_u16(a_fld, b_fld) == U16(a_fld + b_fld + BF16_OFFSET_MOD)
np_sum_full(a_fld, b_fld) == U32(U32(a_fld) + U32(b_fld) + BF16_OFFSET_MOD)

lmul_numpy_lane(a_in, b_in) ==
    LET a == U16(a_in)
        b == U16(b_in)
        a_fld == BitAnd(a, BF16_FIELD_MASK)
        b_fld == BitAnd(b, BF16_FIELD_MASK)
        a_exp == BitAnd(Shr(a_fld, BF16_MANTISSA_BITS), 255)
        b_exp == BitAnd(Shr(b_fld, BF16_MANTISSA_BITS), 255)
        zero_or_sub_m == (a_exp = 0) \/ (b_exp = 0)
        sum_full == np_sum_full(a_fld, b_fld)
        carry2 == BitAnd(Shr(sum_full, 15), 3)
        low_bits == BitAnd(sum_full, BF16_FIELD_MASK)
        field_sel0 == 0
        normal_mask == (carry2 = 1) /\ ~zero_or_sub_m
        field_sel1 == IF normal_mask THEN U16(low_bits) ELSE field_sel0
        overflow_mask == (carry2 >= 2) /\ ~zero_or_sub_m
        field_sel == IF overflow_mask THEN BF16_FIELD_MASK ELSE field_sel1
        out_sign_raw == BitAnd(Shr(BitXor(a, b), 15), 1)
        result_is_zero == (field_sel = 0)
        out_sign == IF result_is_zero THEN 0 ELSE out_sign_raw
    IN  BitOr(U16(Shl(U16(out_sign), 15)), field_sel)

lmul_numpy_vectorized(a_in, b_in) ==
    [i \in DOMAIN a_in |-> lmul_numpy_lane(a_in[i], b_in[i])]

\* ----------------------------------------------- tensor-vectorized kernel

\* normal_mask = (carry2 == 1) & ~zero_or_sub
pt_normal_mask_unguarded(carry2, zero_or_sub_m) == (carry2 = 1)
pt_normal_mask(carry2, zero_or_sub_m) == (carry2 = 1) /\ ~zero_or_sub_m

lmul_torch_lane(a_in, b_in) ==
    LET \* .to(torch.int32) of a uint16 element: its value, in 0..65535
        a_bf16_int == U16(a_in)
        b_bf16_int == U16(b_in)
        a_fld == BitAnd(a_bf16_int, BF16_FIELD_MASK)
        b_fld == BitAnd(b_bf16_int, BF16_FIELD_MASK)
        a_exp == BitAnd(Shr(a_fld, BF16_MANTISSA_BITS), 255)
        b_exp == BitAnd(Shr(b_fld, BF16_MANTISSA_BITS), 255)
        zero_or_sub_m == (a_exp = 0) \/ (b_exp = 0)
        sum_full == a_fld + b_fld + BF16_OFFSET_MOD
        carry2 == BitAnd(Shr(sum_full, 15), 3)
        low_bits == BitAnd(sum_full, BF16_FIELD_MASK)
        field_sel0 == 0
        normal_mask == pt_normal_mask(carry2, zero_or_sub_m)
        field_sel1 == IF normal_mask THEN low_bits ELSE field_sel0
        overflow_mask == (carry2 >= 2) /\ ~zero_or_sub_m
        field_sel == IF overflow_mask THEN BF16_FIELD_MASK ELSE field_sel1
        out_sign_raw == BitAnd(Shr(BitXor(a_bf16_int, b_bf16_int), 15), 1)
        result_is_zero == (field_sel = 0)
        out_sign == IF result_is_zero THEN 0 ELSE out_sign_raw
    IN  U16(BitOr(Shl(out_sign, 15), field_sel))

lmul_torch_vectorized(a_in, b_in) ==
    [i \in DOMAIN a_in |-> lmul_torch_lane(a_in[i], b_in[i])]

\* --------------------------------------------- vectorized kernels: machine

\* Array elements: a negative subnormal (0x807F), two small normals of
\* opposite sign whose fields add up to 0x3F80 (0x1F80, 0xA000), a mid-range
\* negative (0xC020) and the largest finite positive (0x7F7F).
BatchOperands == {32895, 8064, 40960, 49184, 32639}
Arrays(S) == UNION {[1..n -> S] : n \in 1..MaxLen}

KernelIdle ==
    /\ a_bf16 = 0 /\ b_bf16 = 0
    /\ ret_ab = <<>> /\ ret_ba = <<>> /\ ret_bits = <<>>

InitBatch ==
    /\ KernelIdle /\ CodecIdle /\ BulkIdle /\ MatmulIdle /\ HarnessIdle
    /\ batch_a \in Arrays(BatchOperands)
    /\ batch_b \in Arrays(BatchOperands)
    /\ Len(batch_a) = Len(batch_b)
    /\ out_py = <<>> /\ out_np = <<>> /\ out_pt = <<>>

\* [lmul(a, b) for a, b in zip(batch_a, batch_b)]
RunScalar ==
    /\ out_py = <<>>
    /\ out_py' = [i \in DOMAIN batch_a |-> lmul(batch_a[i], batch_b[i])]
    /\ UNCHANGED <<batch_a, batch_b, out_np, out_pt, kvars, cvars, evars, mvars, hvars, svars, pvars>>

RunNumpy ==
    /\ out_np = <<>>
    /\ out_np' = lmul_numpy_vectorized(batch_a, batch_b)
    /\ UNCHANGED <<batch_a, batch_b, out_py, out_pt, kvars, cvars, evars, mvars, hvars, svars, pvars>>

RunTorch ==
    /\ out_pt = <<>>
    /\ out_pt' = lmul_torch_vectorized(batch_a, batch_b)
    /\ UNCHANGED <<batch_a, batch_b, out_py, out_np, kvars, cvars, evars, mvars, hvars, svars, pvars>>

NextBatch == RunScalar \/ RunNumpy \/ RunTorch

SpecBatch == InitBatch /\ [][NextBatch]_vars

\* C1: for every pair of 16-bit patterns the scalar, array-vectorized and
\* tensor-vectorized kernels return the identical 16-bit result, element by
\* element: any two of the three result arrays that have been computed for a
\* batch have the same length and agree at every index.
C1_CrossImplementation ==
    /\ (out_py # <<>> /\ out_np # <<>>) =>
          /\ Len(out_np) = Len(out_py)
          /\ \A i \in DOMAIN out_py : out_np[i] = out_py[i]
    /\ (out_py # <<>> /\ out_pt # <<>>) =>
          /\ Len(out_pt) = Len(out_py)
          /\ \A i \in DOMAIN out_py : out_pt[i] = out_py[i]

\* C1 witness: all three kernels ran on a two-element batch holding a
\* zero-operand lane and an overflowing lane of negative product.
C1_Witness ==
    /\ out_py # <<>> /\ out_np # <<>> /\ out_pt # <<>>
    /\ Len(batch_a) >= 2
    /\ ExponentField(batch_a[1]) = 0
    /\ CarrySelector(batch_a[2], batch_b[2]) >= 2
    /\ out_py[1] = 0
    /\ out_py[2] = 65535

\* ------------------------------------------------------------ BF16 codec
\* A float is the pair of 16-bit words of its single-precision pattern:
\* hi = sign, 8 exponent bits, mantissa bits 22..16; lo = mantissa bits 15..0.

F32(hi, lo) == [hi |-> hi, lo |-> lo]

\* np.isnan, np.isinf, f < 0, f >= 0
IsNaN(f) == (f.hi \div 128) % 256 = 255 /\ (f.hi % 128 # 0 \/ f.lo # 0)
IsInf(f) == (f.hi \div 128) % 256 = 255 /\ f.hi % 128 = 0 /\ f.lo = 0
IsZero(f) == f.hi % 32768 = 0 /\ f.lo = 0
LtZero(f) == ~IsNaN(f) /\ ~IsZero(f) /\ f.hi \div 32768 = 1
GeZero(f) == ~IsNaN(f) /\ ~LtZero(f)

\* The clamp bound 3.4e38 as a single-precision pattern: 0x7F7F C99E, the
\* largest single-precision value not above 3.4e38 and the nearest to it.
CLIP_HI == 32639
CLIP_LO == 51614

\* |f| > 3.4e38, for f not NaN
AboveClip(f) ==
    \/ f.hi % 32768 > CLIP_HI
    \/ f.hi % 32768 = CLIP_HI /\ f.lo > CLIP_LO

\* np.clip(f, -3.4e38, 3.4e38) followed by the conversion to float32:
\* NaN stays NaN, infinities and finite values beyond the bound become the
\* bound with the sign kept.
clip_f32(f) ==
    IF IsNaN(f) THEN f
    ELSE IF AboveClip(f) THEN F32((f.hi \div 32768) * 32768 + CLIP_HI, CLIP_LO)
    ELSE f

\* (f32_bits >> 16) & 0xFFFF
upper16_shift15(f) == (f.hi % 32768) * 2 + f.lo \div 32768
upper16(f) == BitAnd(f.hi, 65535)

float_to_bf16_clip_first(f) ==
    LET c == clip_f32(f)
    IN  IF IsNaN(c) THEN 32704
        ELSE IF IsInf(c) THEN (IF LtZero(c) THEN 65408 ELSE 32640)
        ELSE upper16(c)
float_to_bf16(f) ==
    IF IsNaN(f) THEN 32704
    ELSE IF IsInf(f) THEN (IF LtZero(f) THEN 65408 ELSE 32640)
    ELSE upper16(clip_f32(f))

\* f32_bits = (bf16 & 0xFFFF) << 16
bf16_to_float_shift15(bf16) ==
    F32(BitAnd(bf16, 65535) \div 2, (BitAnd(bf16, 65535) % 2) * 32768)
bf16_to_float(bf16) == F32(BitAnd(bf16, 65535), 0)

\* float_to_bf16_array at one index: clip, truncate, then the three masks,
\* all taken from the clipped array.
float_to_bf16_array_lane(x) ==
    LET f == clip_f32(x)
        bf16_bits0 == U16(f.hi)
        nan_mask == IsNaN(f)
        inf_mask == IsInf(f)
        neg_inf_mask == inf_mask /\ LtZero(f)
        pos_inf_mask == inf_mask /\ GeZero(f)
        bf16_bits1 == IF nan_mask THEN 32704 ELSE bf16_bits0
        bf16_bits2 == IF neg_inf_mask THEN 65408 ELSE bf16_bits1
        bf16_bits3 == IF pos_inf_mask THEN 32640 ELSE bf16_bits2
    IN  U16(bf16_bits3)

float_to_bf16_array(arr) ==
    [i \in DOMAIN arr |-> float_to_bf16_array_lane(arr[i])]

\* bf16_to_float_array at one index: bf16.astype(np.uint32) << 16, viewed as
\* float32.
bf16_to_float_array_lane(bf16) == F32(U16(bf16), 0)

\* float_to_bf16_tensor at one index.
float_to_bf16_tensor_lane(x) ==
    LET f == clip_f32(x)
        bf16_bits0 == BitAnd(f.hi, 65535)
        nan_mask == IsNaN(f)
        inf_mask == IsInf(f)
        neg_inf_mask == inf_mask /\ LtZero(f)
        pos_inf_mask == inf_mask /\ GeZero(f)
        bf16_bits1 == IF nan_mask THEN 32704 ELSE bf16_bits0
        bf16_bits2 == IF neg_inf_mask THEN 65408 ELSE bf16_bits1
        bf16_bits3 == IF pos_inf_mask THEN 32640 ELSE bf16_bits2
    IN  U16(bf16_bits3)

float_to_bf16_tensor(arr) ==
    [i \in DOMAIN arr |-> float_to_bf16_tensor_lane(arr[i])]

\* bf16_to_float_tensor at one index: (bf16.to(torch.int64) << 16) as
\* uint32, viewed as float32.
bf16_to_float_tensor_lane(bf16) == F32(U16(bf16), 0)

\* ---------------------------------------------------------- codec: machine

\* Low words sampled: zero, one, the top bit alone, the clamp bound's low
\* word and its successor, all ones.
LoSamples == {0, 1, 32768, CLIP_LO, CLIP_LO + 1, 65535}
FloatSamples == {F32(h, l) : h \in Operands, l \in LoSamples}

InitCodec ==
    /\ KernelIdle /\ BatchIdle /\ BulkIdle /\ MatmulIdle /\ HarnessIdle
    /\ \/ /\ c_kind = "float"
          /\ c_floats \in {<<f>> : f \in FloatSamples}
          /\ c_codes = <<>>
       \/ /\ c_kind = "bf16"
          /\ c_floats = <<>>
          /\ c_codes \in {<<v>> : v \in Operands}

\* float_to_bf16 of the newest float of the chain
Encode ==
    /\ Len(c_floats) + Len(c_codes) <= MaxConv
    /\ Len(c_floats) = Len(c_codes) + (IF c_kind = "float" THEN 1 ELSE 0)
    /\ Len(c_floats) > 0
    /\ c_codes' = Append(c_codes, float_to_bf16(c_floats[Len(c_floats)]))
    /\ UNCHANGED <<c_kind, c_floats, kvars, bvars, evars, mvars, hvars, svars, pvars>>

\* bf16_to_float of the newest code of the chain
Decode ==
    /\ Len(c_floats) + Len(c_codes) <= MaxConv
    /\ Len(c_codes) = Len(c_floats) + (IF c_kind = "bf16" THEN 1 ELSE 0)
    /\ Len(c_codes) > 0
    /\ c_floats' = Append(c_floats, bf16_to_float(c_codes[Len(c_codes)]))
    /\ UNCHANGED <<c_kind, c_codes, kvars, bvars, evars, mvars, hvars, svars, pvars>>

NextCodec == Encode \/ Decode

SpecCodec == InitCodec /\ [][NextCodec]_vars

\* ----------------------------------------------------------- codec claims

\* Patterns of the 16-bit format: all-ones exponent with a nonzero mantissa
\* is a NaN, with a zero mantissa an infinity.
IsNaNPattern(v) == ExponentField(v) = 255 /\ v % 128 # 0
IsInfPattern(v) == ExponentField(v) = 255 /\ v % 128 = 0

\* C6 (as stated): for every 16-bit pattern v, NaN and infinity patterns of
\* either sign included, float_to_bf16(bf16_to_float(v)) == v.
C6_RoundTripAllPatterns ==
    (c_kind = "bf16" /\ Len(c_codes) >= 2) => c_codes[2] = c_codes[1]

\* C6 (amended): for every 16-bit pattern v that is not a NaN pattern,
\* float_to_bf16(bf16_to_float(v)) == v; for every NaN pattern the round trip
\* yields 0x7FC0.
C6_RoundTripNonNaN ==
    (c_kind = "bf16" /\ Len(c_codes) >= 2) =>
        c_codes[2] = (IF IsNaNPattern(c_codes[1]) THEN 32704 ELSE c_codes[1])

\* C6 witness: the pattern of negative infinity went through decode and
\* encode and came back unchanged.
C6_Witness ==
    /\ c_kind = "bf16" /\ Len(c_codes) >= 2
    /\ c_codes[1] = 65408
    /\ IsInf(c_floats[1]) /\ LtZero(c_floats[1])
    /\ c_codes[2] = 65408

\* C7: the scalar encoder maps NaN to 0x7FC0, +inf to 0x7F80 and -inf to
\* 0xFF80; the cases are decided before the clamp and the truncation, so an
\* infinity is not clamped to the largest finite pattern and a NaN whose
\* upper word looks like an infinity is not truncated to one.
C7_EncoderSpecials ==
    (c_kind = "float" /\ Len(c_codes) >= 1) =>
        LET x == c_floats[1]
            expAllOnes == (x.hi \div 128) % 256 = 255
            mantZero == x.hi % 128 = 0 /\ x.lo = 0
        IN  /\ (expAllOnes /\ ~mantZero) => c_codes[1] = 32704
            /\ (expAllOnes /\ mantZero /\ x.hi \div 32768 = 0) => c_codes[1] = 32640
            /\ (expAllOnes /\ mantZero /\ x.hi \div 32768 = 1) => c_codes[1] = 65408

\* C7 witness: negative infinity has been encoded.
C7_Witness ==
    /\ c_kind = "float" /\ Len(c_codes) >= 1
    /\ c_floats[1] = F32(65408, 0)
    /\ c_codes[1] = 65408

\* C9: for every input x, NaN and infinities included,
\* float_to_bf16(bf16_to_float(float_to_bf16(x))) == float_to_bf16(x).
C9_ReencodeStable ==
    (c_kind = "float" /\ Len(c_codes) >= 2) => c_codes[2] = c_codes[1]

\* C9 witness: a finite negative value beyond the clamp bound, with low
\* mantissa bits set, was encoded, decoded and encoded again.
C9_Witness ==
    /\ c_kind = "float" /\ Len(c_codes) >= 2
    /\ c_floats[1] = F32(65407, 65535)
    /\ c_floats[2] # c_floats[1]
    /\ c_codes[2] = 65407

\* --------------------------------------------------- bulk encoders: machine

\* Array elements: both infinities, a NaN whose upper word alone reads as an
\* infinity, 1.0, the most negative finite value, the smallest subnormal.
BulkFloats ==
    {F32(32640, 0), F32(65408, 0), F32(32640, 1),
     F32(16256, 0), F32(65407, 65535), F32(0, 1)}

InitBulk ==
    /\ KernelIdle /\ BatchIdle /\ CodecIdle /\ MatmulIdle /\ HarnessIdle
    /\ bulk_in \in Arrays(BulkFloats)
    /\ enc_py = <<>> /\ enc_np = <<>> /\ enc_pt = <<>>

\* [float_to_bf16(x) for x in bulk_in]
EncodeEach ==
    /\ enc_py = <<>>
    /\ enc_py' = [i \in DOMAIN bulk_in |-> float_to_bf16(bulk_in[i])]
    /\ UNCHANGED <<bulk_in, enc_np, enc_pt, kvars, bvars, cvars, mvars, hvars, svars, pvars>>

EncodeArray ==
    /\ enc_np = <<>>
    /\ enc_np' = float_to_bf16_array(bulk_in)
    /\ UNCHANGED <<bulk_in, enc_py, enc_pt, kvars, bvars, cvars, mvars, hvars, svars, pvars>>

EncodeTensor ==
    /\ enc_pt = <<>>
    /\ enc_pt' = float_to_bf16_tensor(bulk_in)
    /\ UNCHANGED <<bulk_in, enc_py, enc_np, kvars, bvars, cvars, mvars, hvars, svars, pvars>>

NextBulk == EncodeEach \/ EncodeArray \/ EncodeTensor

SpecBulk == InitBulk /\ [][NextBulk]_vars

\* C8: the bulk encoders apply the scalar encoder's policy elementwise: for
\* every input element (finite, NaN, +inf or -inf), float_to_bf16_array and
\* float_to_bf16_tensor produce at each position the pattern float_to_bf16
\* produces for that element, in the same order and shape.
C8_BulkMatchesScalar ==
    /\ (enc_py # <<>> /\ enc_np # <<>>) =>
          /\ Len(enc_np) = Len(bulk_in)
          /\ \A i \in DOMAIN bulk_in : enc_np[i] = enc_py[i]
    /\ (enc_py # <<>> /\ enc_pt # <<>>) =>
          /\ Len(enc_pt) = Len(bulk_in)
          /\ \A i \in DOMAIN bulk_in : enc_pt[i] = enc_py[i]

\* -------------------------------------------------------- matmul adapters
\* A matrix of shape (m, n) is a sequence of m rows of n encoded values.  An
\* adapter's outcome is [status |-> "raised", error |-> ...] or
\* [status |-> "ok", terms |-> T], T[i][j] being the decoded products
\* decode(lmul(.,.)) along the contraction axis, in order: the float32 terms
\* that sum(axis=1) adds up for cell (i, j).

Raised(e) == [status |-> "raised", error |-> e]
Returned(t) == [status |-> "ok", terms |-> t]

\* NumPy / PyTorch broadcasting of one extent against another.
Broadcastable(d, target) == d = target \/ d = 1
BroadcastExtent(d1, d2) == IF d1 = 1 THEN d2 ELSE d1
\* Row read by a broadcast view: an axis of extent 1 is repeated.
BroadcastIndex(extent, k) == IF extent = 1 THEN 1 ELSE k

lmul_numpy_matmul(a, b) ==
    LET m == Len(a)
        n == Len(a[1])
        n_b == Len(b)
        p == Len(b[1])
        \* np.broadcast_to(a_expanded, (m, n, p)), a_expanded of shape (m, n, 1)
        a_ok == Broadcastable(m, m) /\ Broadcastable(n, n) /\ Broadcastable(1, p)
        \* np.broadcast_to(b_expanded, (m, n, p)), b_expanded of shape (1, n_b, p)
        b_ok == Broadcastable(1, m) /\ Broadcastable(n_b, n) /\ Broadcastable(p, p)
        products_bf16 == [i \in 1..m |-> [j \in 1..p |-> [k \in 1..n |->
            lmul_numpy_lane(a[i][k], b[BroadcastIndex(n_b, k)][j])]]]
        products_float == [i \in 1..m |-> [j \in 1..p |-> [k \in 1..n |->
            bf16_to_float_array_lane(products_bf16[i][j][k])]]]
    IN  IF ~a_ok \/ ~b_ok THEN Raised("ValueError")
        ELSE Returned(products_float)

lmul_torch_matmul(a, b) ==
    LET m == Len(a)
        n == Len(a[1])
        n_b == Len(b)
        p == Len(b[1])
        \* a_broadcast: (m, n, p); b_broadcast: (m, n_b, p)
        \* lmul_torch_vectorized: the first elementwise operation of the two
        \* tensors broadcasts them against each other
        ew_ok == Broadcastable(n, n_b) \/ Broadcastable(n_b, n)
        n_bc == BroadcastExtent(n, n_b)
        \* field_sel = zeros_like(a_fld); field_sel[normal_mask] = ...: the
        \* mask has the broadcast shape and must have the shape of field_sel
        mask_ok == n_bc = n
        products_bf16 == [i \in 1..m |-> [j \in 1..p |-> [k \in 1..n |->
            lmul_torch_lane(a[i][k], b[BroadcastIndex(n_b, k)][j])]]]
        products_float == [i \in 1..m |-> [j \in 1..p |-> [k \in 1..n |->
            bf16_to_float_tensor_lane(products_bf16[i][j][k])]]]
    IN  IF ~ew_ok THEN Raised("RuntimeError")
        ELSE IF ~mask_ok THEN Raised("IndexError")
        ELSE Returned(products_float)

\* ------------------------------------------------ matmul adapters: machine

\* Matrix elements: 1.0 and -2.0.
MatOperands == {16256, 49152}
Matrices == UNION {[1..r -> [1..c -> MatOperands]] : r \in 1..MaxDim, c \in 1..MaxDim}

InitMatmul ==
    /\ KernelIdle /\ BatchIdle /\ CodecIdle /\ BulkIdle /\ HarnessIdle
    /\ mm_a \in Matrices
    /\ mm_b \in Matrices
    /\ mm_np = NotCalled /\ mm_pt = NotCalled

CallNumpyMatmul ==
    /\ mm_np = NotCalled
    /\ mm_np' = lmul_numpy_matmul(mm_a, mm_b)
    /\ UNCHANGED <<mm_a, mm_b, mm_pt, kvars, bvars, cvars, evars, hvars, svars, pvars>>

CallTorchMatmul ==
    /\ mm_pt = NotCalled
    /\ mm_pt' = lmul_torch_matmul(mm_a, mm_b)
    /\ UNCHANGED <<mm_a, mm_b, mm_np, kvars, bvars, cvars, evars, hvars, svars, pvars>>

NextMatmul == CallNumpyMatmul \/ CallTorchMatmul

SpecMatmul == InitMatmul /\ [][NextMatmul]_vars

\* C10: the matmul adapters fail with a shape-mismatch error whenever the
\* contraction dimensions differ: for A of shape (m, n) and B of shape
\* (n_b, p) with n # n_b (n_b = 1 or n = 1 included), a call of
\* lmul_numpy_matmul or lmul_torch_matmul raises and returns no result.
C10_ShapeMismatchRaises ==
    (Len(mm_a[1]) # Len(mm_b)) =>
        /\ mm_np.status # "ok"
        /\ mm_pt.status # "ok"

\* ------------------------------------------------- network kernel: lmul_bits

\* zero_mask = (a_exp == 0) | (b_exp == 0)
zero_mask_and(a_exp, b_exp) == (a_exp = 0) /\ (b_exp = 0)
zero_mask_of(a_exp, b_exp) == (a_exp = 0) \/ (b_exp = 0)

\* field_sel after the two torch.where: 0, the low 15 bits or 0x7FFF.
where_field_sel(carry2, sum_full) ==
    LET field_sel0 == 0
        mask_normal == (carry2 = 1)
        mask_overflow == (carry2 >= 2)
        field_sel1 == IF mask_normal THEN BitAnd(sum_full, 32767) ELSE field_sel0
    IN  IF mask_overflow THEN 32767 ELSE field_sel1

\* result_bits_bf16: the 16-bit pattern packed from the upper halves of the
\* two single-precision patterns.
result_bits_bf16(a, b) ==
    LET a_upper == a.hi
        b_upper == b.hi
        a_sign == BitAnd(Shr(a_upper, 15), 1)
        b_sign == BitAnd(Shr(b_upper, 15), 1)
        a_field == BitAnd(a_upper, 32767)
        b_field == BitAnd(b_upper, 32767)
        OFFSET_MOD == 16512
        sum_full == a_field + b_field + OFFSET_MOD
        carry2 == BitAnd(Shr(sum_full, 15), 3)
        field_sel == where_field_sel(carry2, sum_full)
        s_xor == BitXor(a_sign, b_sign)
        s_result == IF field_sel = 0 THEN 0 ELSE s_xor
    IN  BitOr(Shl(s_result, 15), field_sel)

\* result + result / 32 + result / 64 for the float whose pattern is
\* bits << 16.  The float has an 8-bit significand M, the sum is
\* M * 67 / 64 and both additions are exact in single precision; a sum of
\* 2^128 or more is an infinity, an infinity stays, a NaN stays a NaN.
bias_shift(bits) ==
    LET s == bits \div 32768
        e == (bits % 32768) \div 128
        m == bits % 128
        P == 67 * (128 + m)
        up == IF P >= 16384 THEN 1 ELSE 0
        frac == IF up = 1 THEN P * 512 ELSE P * 1024
        sub == 67 * m * 1024
    IN  IF e = 255 THEN F32(IF m = 0 THEN bits ELSE BitOr(bits, 64), 0)
        ELSE IF e = 0
            THEN F32(s * 32768 + (sub \div 65536), sub % 65536)
        ELSE IF e + up >= 255 THEN F32(s * 32768 + 255 * 128, 0)
        ELSE F32(s * 32768 + (e + up) * 128 + ((frac \div 65536) % 128),
                 frac % 65536)

\* lmul_bits on one element: the packed pattern and the returned float.
lmul_bits(a, b) ==
    LET a_exp == BitAnd(Shr(BitAnd(a.hi, 32767), 7), 255)
        b_exp == BitAnd(Shr(BitAnd(b.hi, 32767), 7), 255)
        zero_mask == zero_mask_of(a_exp, b_exp)
        packed == result_bits_bf16(a, b)
        result == bias_shift(packed)
    IN  [packed |-> packed,
         value |-> IF zero_mask THEN F32(0, 0) ELSE result]

\* result = lmul_bits(a, b), a and b the floats of the two 16-bit patterns
CallLmulBits ==
    /\ ret_bits = <<>>
    /\ ret_bits' = <<lmul_bits(F32(a_bf16, 0), F32(b_bf16, 0))>>
    /\ UNCHANGED <<a_bf16, b_bf16, ret_ab, ret_ba, bvars, cvars, evars, mvars, hvars, svars, pvars>>

NextBits == CallLmul \/ CallLmulBits

SpecBits == Init /\ [][NextBits]_vars

\* C28: for every pair of 16-bit patterns with both exponent fields
\* nonzero the 16-bit pattern lmul_bits packs before the float conversion
\* is lmul(a, b), and for every pair with a zero exponent field the value
\* lmul_bits returns is exactly zero.
C28_BitsKernelMatchesLmul ==
    ret_bits # <<>> =>
        /\ (ExponentField(a_bf16) # 0 /\ ExponentField(b_bf16) # 0) =>
               /\ ret_bits[1].packed = lmul(a_bf16, b_bf16)
               /\ ret_ab # <<>> => ret_bits[1].packed = ret_ab[1]
        /\ (ExponentField(a_bf16) = 0 \/ ExponentField(b_bf16) = 0) =>
               ret_bits[1].value = F32(0, 0)

\* C28 witness: a pair of normal operands of opposite sign whose packed
\* pattern is a negative normal product the correction has moved.
C28_Witness ==
    /\ ret_bits # <<>> /\ ret_ab # <<>>
    /\ ExponentField(a_bf16) # 0 /\ ExponentField(b_bf16) # 0
    /\ CarrySelector(a_bf16, b_bf16) = 1
    /\ SignBit(ret_bits[1].packed) = 1
    /\ ret_bits[1].packed = ret_ab[1]
    /\ ret_bits[1].value # F32(ret_ab[1], 0)

\* ------------------------------------------------- harnesses: host side

\* One line of the simulator's standard output: a result printed with %04h
\* ("hex"), the two counter lines, a line beginning with ERROR, or any
\* other text ("text": a banner, or the xxxx of an unknown value).
HexLine(v) == [kind |-> "hex", val |-> v]
CyclesWindowLine(v) == [kind |-> "CYCLES_WINDOW", val |-> v]
TotalCyclesLine(v) == [kind |-> "TOTAL_CYCLES", val |-> v]
ErrorLine == [kind |-> "ERROR", val |-> 0]
TextLine == [kind |-> "text", val |-> 0]

Parsed(results_, cycles_window_, total_cycles_) ==
    [status |-> "returned", results |-> results_,
     cycles_window |-> cycles_window_, total_cycles |-> total_cycles_]

\* The parse loop of BatchLMULTester.test_batch over the lines left to
\* read; acc is what the loop has collected so far.
RECURSIVE parse_single(_, _)
parse_single(lines, acc) ==
    IF lines = <<>> THEN acc
    ELSE LET line == Head(lines) IN
        IF line.kind = "ERROR" THEN Raised("RuntimeError")
        ELSE IF line.kind = "CYCLES_WINDOW"
            THEN parse_single(Tail(lines), [acc EXCEPT !.cycles_window = <<line.val>>])
        ELSE IF line.kind = "TOTAL_CYCLES"
            THEN parse_single(Tail(lines), [acc EXCEPT !.total_cycles = <<line.val>>])
        ELSE IF line.kind = "hex"
            THEN parse_single(Tail(lines), [acc EXCEPT !.results = Append(@, line.val)])
        ELSE parse_single(Tail(lines), acc)

ParsedParallel(results_) == [status |-> "returned", results |-> results_]

RECURSIVE parse_parallel_skip_error(_, _)
parse_parallel_skip_error(lines, acc) ==
    IF lines = <<>> THEN acc
    ELSE LET line == Head(lines) IN
        IF line.kind = "hex"
            THEN parse_parallel_skip_error(Tail(lines), [acc EXCEPT !.results = Append(@, line.val)])
        ELSE parse_parallel_skip_error(Tail(lines), acc)

\* The parse loop of BatchLMULTesterParallel.test_batch: every line that
\* is not an ERROR line goes through int(line, 16).
RECURSIVE parse_parallel(_, _)
parse_parallel(lines, acc) ==
    IF lines = <<>> THEN acc
    ELSE LET line == Head(lines) IN
        IF line.kind = "ERROR" THEN Raised("RuntimeError")
        ELSE IF line.kind = "hex"
            THEN parse_parallel(Tail(lines), [acc EXCEPT !.results = Append(@, line.val)])
        ELSE parse_parallel(Tail(lines), acc)

\* results[:num_tests]
Prefix(seq, n) == SubSeq(seq, 1, IF n < Len(seq) THEN n ELSE Len(seq))

\* pad = (degrees - (num_tests % degrees)) % degrees
pad_of(n, d) == (d - (n % d)) % d

\* test_pairs += [(0, 0)] * pad
padded(pairs, d) == pairs \o [k \in 1..pad_of(Len(pairs), d) |-> <<0, 0>>]

\* ------------------------------------- single-instance harness: testbench

\* Most stimulus pairs handed to one call of test_batch.
MaxTests == 8
\* Largest device latency, in clock edges from acceptance to o_valid.
MaxLatency == 6
\* Most clock edges a device keeps i_ready low after an acceptance.
MaxBusy == 1

CLK_PERIOD == 10
RESET_EDGES == 2
SETTLE_EDGES == 2
DRAIN_EDGES == 5
TIMEOUT_BASE == 200000
TIMEOUT_PER_TEST == 1000

\* Stimulus k of a run: distinct pairs with distinct, nonzero products.
Stimulus(k) == <<Pack16(k % 2, 124 + k, 64), 16384>>

o_ready == TRUE

\* The guard's delay elapses after this many rising edges (edge e is at
\* time 5 + 10 * (e - 1)).
TimeoutEdges == (TIMEOUT_BASE + num_tests * TIMEOUT_PER_TEST) \div CLK_PERIOD

\* The device behind the ports: valid/ready handshake, a result
\* dut_latency edges after the acceptance, results in acceptance order,
\* i_ready low for dut_busy edges after an acceptance.  A pipeline slot is
\* <<>> or <<[p |-> product, k |-> stimulus]>>.
i_ready == ~dut_stuck /\ busy_left = 0
o_valid == pipe[dut_latency] # <<>>
o_p == pipe[dut_latency][1].p
dut_takes(seen_valid) == rstn /\ seen_valid /\ i_ready

dut_step(seen_valid) ==
    /\ pipe' = [s \in 1..dut_latency |->
                  IF ~rstn THEN <<>>
                  ELSE IF s > 1 THEN pipe[s - 1]
                  ELSE IF dut_takes(seen_valid)
                      THEN <<[p |-> lmul(i_a, i_b), k |-> test_idx + 1]>>
                      ELSE <<>>]
    /\ busy_left' = IF dut_takes(seen_valid) THEN dut_busy
                    ELSE IF rstn /\ busy_left > 0 THEN busy_left - 1
                    ELSE 0
    /\ accepted' = IF dut_takes(seen_valid)
                       THEN [accepted EXCEPT ![test_idx + 1] = @ + 1]
                       ELSE accepted

\* always @(posedge clk or negedge rstn): the cycle counter.
cycle_counter(seen_rstn) ==
    cycle' = IF seen_rstn THEN cycle + 1 ELSE 0

capture_fires_level ==
    rstn /\ inputs_started /\ o_valid /\ o_ready /\ result_idx < num_tests

\* The condition of the capture block's if.
capture_fires ==
    rstn /\ inputs_started /\ o_valid /\ o_ready /\ ~o_valid_prev
         /\ result_idx < num_tests

\* always @(posedge clk): the capture block.
capture_block ==
    /\ IF capture_fires
           THEN /\ results' = Append(results, o_p)
                /\ result_idx' = result_idx + 1
                /\ last_output_cycle' = cycle
                /\ result_of' = Append(result_of, pipe[dut_latency][1].k)
           ELSE UNCHANGED <<results, result_idx, last_output_cycle, result_of>>
    /\ o_valid_prev' = (rstn /\ o_valid)
    /\ o_valid_before' = o_valid

\* One rising clock edge as the clocked processes see it.  The main block
\* assigns rstn and i_valid with blocking assignments at the edge itself,
\* so a process woken by the same edge reads the value from before or from
\* after the assignment: seen_rstn is what the counter reads, seen_valid
\* what the device reads.
clocked_processes(seen_rstn, seen_valid) ==
    /\ edges < TimeoutEdges
    /\ edges' = edges + 1
    /\ cycle_counter(seen_rstn)
    /\ capture_block
    /\ dut_step(seen_valid)

first_handshake_every_vector == busy_left' = 0

\* if (!started && i_ready), read after the #1.
first_handshake == ~started /\ busy_left' = 0

\* The head of the drive loop reached at a clock edge with test_idx = idx:
\* the loop test, the wait for i_ready (read before the edge's updates),
\* the operands, and after the #1 the valid and the first-accept record
\* (read after the edge's updates).
drive(idx) ==
    /\ test_idx' = idx
    /\ IF idx >= num_tests
           THEN /\ pc' = "drain" /\ wait_left' = DRAIN_EDGES
                /\ i_valid' = FALSE
                /\ UNCHANGED <<i_a, i_b, started, first_accept_cycle, inputs_started,
                               accept_writes>>
       ELSE IF ~i_ready
           THEN /\ pc' = "wait_ready" /\ wait_left' = 0
                /\ i_valid' = FALSE
                /\ UNCHANGED <<i_a, i_b, started, first_accept_cycle, inputs_started,
                               accept_writes>>
       ELSE /\ pc' = "hold1" /\ wait_left' = 0
            /\ i_a' = test_pairs[idx + 1][1]
            /\ i_b' = test_pairs[idx + 1][2]
            /\ i_valid' = TRUE
            /\ IF first_handshake
                   THEN /\ started' = TRUE
                        /\ first_accept_cycle' = cycle'
                        /\ accept_writes' = accept_writes + 1
                        /\ inputs_started' = TRUE
                   ELSE UNCHANGED <<started, first_accept_cycle, inputs_started,
                                    accept_writes>>

cycles_window_span == last_output_cycle' - first_accept_cycle

cycles_window == last_output_cycle' - first_accept_cycle + 1

display_from_one ==
    [k \in 1..(num_tests - 1) |-> HexLine(results'[k + 1])]
        \o <<CyclesWindowLine(cycles_window), TotalCyclesLine(cycle)>>

\* The $display lines of a finished run.
display ==
    [k \in 1..num_tests |-> HexLine(results'[k])]
        \o <<CyclesWindowLine(cycles_window), TotalCyclesLine(cycle)>>

\* while (result_idx < num_tests) @(posedge clk); then the displays and
\* $finish.  The loop test runs at the edge at which the capture block
\* writes result_idx: it reads the old or the new value.
check_done ==
    \E tb_first \in BOOLEAN :
        LET seen_idx == IF tb_first THEN result_idx ELSE result_idx' IN
        IF seen_idx < num_tests
            THEN /\ pc' = "wait_results"
                 /\ UNCHANGED hvars
            ELSE /\ pc' = "done"
                 /\ sim_stdout' = display
                 /\ sim_rc' = <<0>>
                 /\ h_pc' = "simulated"
                 /\ UNCHANGED <<host_args, compile_rc, ret>>

others == <<kvars, bvars, cvars, evars, mvars>>
device == <<dut_latency, dut_busy, dut_stuck>>
drive_regs == <<i_valid, i_a, i_b, test_idx, started, first_accept_cycle,
                accept_writes>>

InitSingle ==
    /\ KernelIdle /\ BatchIdle /\ CodecIdle /\ BulkIdle /\ MatmulIdle
    /\ ParallelIdle
    /\ harness = "single" /\ h_pc = "simulation"
    /\ compile_rc = <<0>> /\ sim_rc = <<>>
    /\ sim_stdout = <<>> /\ ret = NotCalled
    /\ num_tests \in 1..MaxTests
    /\ test_pairs = [k \in 1..num_tests |-> Stimulus(k)]
    /\ degrees = 0
    /\ accepted = [k \in 1..num_tests |-> 0]
    /\ dut_latency \in 1..MaxLatency
    /\ dut_busy \in 0..MaxBusy
    /\ dut_stuck \in BOOLEAN
    /\ accept_writes = 0
    /\ pc = "reset" /\ wait_left = RESET_EDGES /\ edges = 0
    /\ rstn = FALSE /\ i_valid = FALSE /\ i_a = 0 /\ i_b = 0
    /\ test_idx = 0 /\ result_idx = 0 /\ results = <<>>
    /\ cycle = 0 /\ first_accept_cycle = 0 /\ last_output_cycle = 0
    /\ started = FALSE /\ o_valid_prev = FALSE /\ inputs_started = FALSE
    /\ pipe = [s \in 1..dut_latency |-> <<>>] /\ busy_left = 0
    /\ result_of = <<>> /\ o_valid_before = FALSE

\* repeat(2) @(posedge clk); rstn = 1;
EdgeReset ==
    /\ pc = "reset"
    /\ IF wait_left > 1
           THEN /\ clocked_processes(FALSE, FALSE)
                /\ wait_left' = wait_left - 1
                /\ UNCHANGED <<pc, rstn>>
           ELSE /\ \E seen_rstn \in BOOLEAN : clocked_processes(seen_rstn, FALSE)
                /\ rstn' = TRUE
                /\ pc' = "settle" /\ wait_left' = SETTLE_EDGES
    /\ inputs_started' = FALSE
    /\ UNCHANGED <<drive_regs, device, hvars, pvars, others>>

\* repeat(2) @(posedge clk); then the first pass of the drive loop
EdgeSettle ==
    /\ pc = "settle"
    /\ clocked_processes(TRUE, FALSE)
    /\ IF wait_left > 1
           THEN /\ wait_left' = wait_left - 1
                /\ UNCHANGED <<pc, drive_regs, inputs_started>>
           ELSE drive(0)
    /\ UNCHANGED <<rstn, device, hvars, pvars, others>>

\* while (!i_ready) @(posedge clk);
EdgeWaitReady ==
    /\ pc = "wait_ready"
    /\ ~dut_stuck
    /\ clocked_processes(TRUE, FALSE)
    /\ drive(test_idx)
    /\ UNCHANGED <<rstn, device, hvars, pvars, others>>

\* The same loop against a device that never raises i_ready: every further
\* edge only counts, up to the edge before the guard's delay elapses.
WaitReadyIdle ==
    /\ pc = "wait_ready"
    /\ dut_stuck
    /\ edges < TimeoutEdges
    /\ edges' = TimeoutEdges
    /\ cycle' = cycle + (TimeoutEdges - edges)
    /\ UNCHANGED <<dut_latency, dut_busy, dut_stuck, accept_writes, pc, wait_left,
                   rstn, i_valid, i_a, i_b, test_idx, result_idx, results,
                   first_accept_cycle, last_output_cycle, started,
                   o_valid_prev, inputs_started, pipe, busy_left,
                   accepted, result_of, o_valid_before, hvars, pvars, others>>

\* the first @(posedge clk) of a vector: the device samples it
EdgeHold1 ==
    /\ pc = "hold1"
    /\ clocked_processes(TRUE, i_valid)
    /\ pc' = "hold2"
    /\ UNCHANGED <<wait_left, drive_regs, inputs_started, rstn, device, hvars, pvars, others>>

\* the second @(posedge clk) of a vector; i_valid = 0; the next pass
EdgeHold2 ==
    /\ pc = "hold2"
    /\ \E dut_first \in BOOLEAN : clocked_processes(TRUE, dut_first /\ i_valid)
    /\ drive(test_idx + 1)
    /\ UNCHANGED <<rstn, device, hvars, pvars, others>>

\* repeat(5) @(posedge clk); then the first test of the result wait
EdgeDrain ==
    /\ pc = "drain"
    /\ clocked_processes(TRUE, FALSE)
    /\ IF wait_left > 1
           THEN /\ wait_left' = wait_left - 1
                /\ UNCHANGED <<pc, hvars>>
           ELSE /\ check_done
                /\ wait_left' = 0
    /\ UNCHANGED <<drive_regs, inputs_started, rstn, device, pvars, others>>

\* No clock edge can change anything but the counters any more.
Quiescent ==
    /\ ~i_valid /\ busy_left = 0 /\ ~o_valid_prev
    /\ \A s \in 1..dut_latency : pipe[s] = <<>>

\* while (result_idx < num_tests) @(posedge clk);
EdgeWaitResults ==
    /\ pc = "wait_results"
    /\ ~Quiescent
    /\ clocked_processes(TRUE, FALSE)
    /\ check_done
    /\ UNCHANGED <<wait_left, drive_regs, inputs_started, rstn, device, pvars, others>>

\* The same loop once nothing is in flight: every further edge only
\* counts, up to the edge before the guard's delay elapses.
WaitResultsIdle ==
    /\ pc = "wait_results"
    /\ Quiescent
    /\ edges < TimeoutEdges
    /\ edges' = TimeoutEdges
    /\ cycle' = cycle + (TimeoutEdges - edges)
    /\ UNCHANGED <<dut_latency, dut_busy, dut_stuck, accept_writes, pc, wait_left,
                   rstn, i_valid, i_a, i_b, test_idx, result_idx, results,
                   first_accept_cycle, last_output_cycle, started,
                   o_valid_prev, inputs_started, pipe, busy_left,
                   accepted, result_of, o_valid_before, hvars, pvars, others>>

TimeoutGuard_after_drive ==
    /\ pc = "wait_results"
    /\ edges = TimeoutEdges
    /\ pc' = "timeout"
    /\ sim_stdout' = <<ErrorLine>>
    /\ sim_rc' = <<0>>
    /\ h_pc' = "simulated"
    /\ UNCHANGED <<host_args, compile_rc, ret, pvars, others>>
    /\ UNCHANGED <<dut_latency, dut_busy, dut_stuck, accept_writes, wait_left, edges,
                   rstn, i_valid, i_a, i_b, test_idx, result_idx, results,
                   cycle, first_accept_cycle, last_output_cycle, started,
                   o_valid_prev, inputs_started, pipe, busy_left,
                   accepted, result_of, o_valid_before>>

\* #(200000 + num_tests * 1000); $display("ERROR: Timeout"); $finish;
TimeoutGuard ==
    /\ pc \in {"reset", "settle", "wait_ready", "hold1", "hold2", "drain", "wait_results"}
    /\ edges = TimeoutEdges
    /\ pc' = "timeout"
    /\ sim_stdout' = <<ErrorLine>>
    /\ sim_rc' = <<0>>
    /\ h_pc' = "simulated"
    /\ UNCHANGED <<host_args, compile_rc, ret, pvars, others>>
    /\ UNCHANGED <<dut_latency, dut_busy, dut_stuck, accept_writes, wait_left, edges,
                   rstn, i_valid, i_a, i_b, test_idx, result_idx, results,
                   cycle, first_accept_cycle, last_output_cycle, started,
                   o_valid_prev, inputs_started, pipe, busy_left,
                   accepted, result_of, o_valid_before>>

\* BatchLMULTester.test_batch after the simulation: the parse loop and the
\* return.
ParseSingle ==
    /\ harness = "single"
    /\ h_pc = "simulated"
    /\ ret' = parse_single(sim_stdout, Parsed(<<>>, <<>>, <<>>))
    /\ h_pc' = "done"
    /\ UNCHANGED <<host_args, compile_rc, sim_rc, sim_stdout, svars, pvars, others>>

NextSingle ==
    \/ EdgeReset \/ EdgeSettle \/ EdgeWaitReady \/ WaitReadyIdle
    \/ EdgeHold1 \/ EdgeHold2
    \/ EdgeDrain \/ EdgeWaitResults \/ WaitResultsIdle \/ TimeoutGuard
    \/ ParseSingle

SpecSingle == InitSingle /\ [][NextSingle]_vars

\* always #5 clk = ~clk: the clock never stops while the simulation runs,
\* the guard's delay elapses, and the host reads the output of a finished
\* simulation.
ClockEdge ==
    \/ EdgeReset \/ EdgeSettle \/ EdgeWaitReady \/ WaitReadyIdle
    \/ EdgeHold1 \/ EdgeHold2
    \/ EdgeDrain \/ EdgeWaitResults \/ WaitResultsIdle

SpecSingleFair ==
    InitSingle /\ [][NextSingle]_vars
        /\ WF_vars(ClockEdge) /\ WF_vars(TimeoutGuard) /\ WF_vars(ParseSingle)

\* ------------------------------------------- single-instance harness claims

\* The device's output for stimulus k of the run.
DeviceOutput(k) == lmul(test_pairs[k][1], test_pairs[k][2])

\* C11: when a run of the single-instance harness completes, the result
\* sequence has exactly one entry per stimulus, and entry k is the output
\* the device computed for stimulus k.
C11_ResultsInStimulusOrder ==
    (harness = "single" /\ ret.status = "returned") =>
        /\ Len(ret.results) = num_tests
        /\ result_of = [k \in 1..num_tests |-> k]
        /\ \A k \in 1..num_tests : ret.results[k] = DeviceOutput(k)

C11_Witness ==
    /\ harness = "single" /\ ret.status = "returned"
    /\ num_tests = MaxTests
    /\ Len(ret.results) = MaxTests

\* C12: every stimulus vector is accepted by the device exactly once:
\* i_valid is high on exactly one clock edge at which i_ready is high,
\* also against a device whose i_ready is always high, and the next
\* vector is presented only after that acceptance.
C12_AcceptedExactlyOnce ==
    harness = "single" =>
        \A k \in 1..num_tests :
            /\ accepted[k] <= 1
            /\ (k <= test_idx => accepted[k] = 1)

\* C13: the capture block appends only on a clock edge at which o_valid is
\* high and was low at the previous edge, so a result the device holds
\* valid over several consecutive edges is appended exactly once.
C13_CaptureOnRisingValid ==
    [][(harness = "single" /\ result_idx' # result_idx) =>
           /\ result_idx' = result_idx + 1
           /\ o_valid /\ ~o_valid_before
           /\ results' = Append(results, o_p)]_vars

\* The first stimulus was accepted at two consecutive edges, its product
\* stood on o_p for two edges and the finished run holds it once.
C13_Witness ==
    /\ harness = "single" /\ pc = "done"
    /\ num_tests = 1 /\ accepted = <<2>>
    /\ results = <<DeviceOutput(1)>>

C25_NoResultLost ==
    [][(harness = "single" /\ edges' = edges + 1
            /\ rstn /\ inputs_started /\ o_valid /\ o_ready
            /\ \A r \in 1..Len(result_of) :
                   result_of[r] # pipe[dut_latency][1].k) =>
           /\ result_idx' = result_idx + 1
           /\ result_of' = Append(result_of, pipe[dut_latency][1].k)]_vars

\* The simulation printed every result and the two metrics and finished.
FinishedWithResults ==
    /\ pc = "done"
    /\ Len(sim_stdout) = num_tests + 2
    /\ \A k \in 1..num_tests : sim_stdout[k] = HexLine(results[k])
    /\ sim_stdout[num_tests + 1].kind = "CYCLES_WINDOW"
    /\ sim_stdout[num_tests + 2].kind = "TOTAL_CYCLES"

\* The timeout guard printed ERROR and finished the simulation.
FinishedWithTimeout ==
    pc = "timeout" /\ sim_stdout = <<ErrorLine>>

\* C26: every run of the single-instance testbench terminates: with a
\* clock that keeps ticking it eventually either prints all results with
\* CYCLES_WINDOW and TOTAL_CYCLES and finishes, or the timeout guard prints
\* ERROR and finishes, also against a device that never raises i_ready or
\* never delivers the expected number of results.
C26_TestbenchTerminates ==
    (harness = "single" /\ pc = "reset") ~>
        (FinishedWithResults \/ FinishedWithTimeout)

\* C26 witness: a run against a device that never raised i_ready ended in
\* the timeout guard with no vector presented.
C26_Witness ==
    /\ harness = "single" /\ dut_stuck
    /\ FinishedWithTimeout
    /\ test_idx = 0 /\ ~started /\ result_idx = 0

\* C29: at every clock edge of the single-instance testbench result_idx is
\* within 0..num_tests, nothing is captured before the first stimulus is
\* presented, first_accept_cycle is written at most once, and it is never
\* greater than last_output_cycle once a result is captured.
C29_CaptureBookkeeping ==
    harness = "single" =>
        /\ result_idx \in 0..num_tests
        /\ result_idx = Len(results)
        /\ (result_idx > 0 => inputs_started /\ started)
        /\ accept_writes <= 1
        /\ (started <=> accept_writes = 1)
        /\ (result_idx > 0 => first_accept_cycle <= last_output_cycle)

\* C29 witness: a run with every result captured, the first acceptance
\* recorded once and the last output after it.
C29_Witness ==
    /\ harness = "single" /\ pc = "done"
    /\ result_idx = num_tests /\ num_tests > 1
    /\ accept_writes = 1
    /\ first_accept_cycle < last_output_cycle

\* --------------------------------------------- harnesses: host machine

\* Most lines of simulator output the host is handed in one call.
MaxLines == 3
\* Most device instances of the parallel tester.
MaxDegrees == 5

LineSamples ==
    {HexLine(16256), ErrorLine, TextLine, CyclesWindowLine(2), TotalCyclesLine(9)}

RECURSIVE SeqsUpTo(_, _)
SeqsUpTo(S, n) ==
    IF n = 0 THEN {<<>>}
    ELSE LET shorter == SeqsUpTo(S, n - 1) IN
         shorter \cup {Append(q, x) : q \in shorter, x \in S}

StdoutSamples == SeqsUpTo(LineSamples, MaxLines)

\* Exit statuses an external step can end with.
ExitSamples == {0, 1}

\* A call of test_batch of either tester, seen from the host: the build
\* and the simulation are external steps with any exit status and output.
InitHost ==
    /\ KernelIdle /\ BatchIdle /\ CodecIdle /\ BulkIdle /\ MatmulIdle
    /\ SingleIdle /\ ParallelIdle
    /\ harness \in {"single", "parallel"}
    /\ num_tests \in 1..MaxTests
    /\ test_pairs = [k \in 1..num_tests |-> Stimulus(k)]
    /\ degrees \in IF harness = "single" THEN {0} ELSE 1..MaxDegrees
    /\ h_pc = "called"
    /\ compile_rc = <<>> /\ sim_rc = <<>>
    /\ sim_stdout = <<>> /\ ret = NotCalled

\* num_tests = len(test_pairs); the padding of the parallel tester; the
\* testbench text written to a temporary file.
GenerateTestbench ==
    /\ h_pc = "called"
    /\ test_pairs' = IF harness = "parallel" THEN padded(test_pairs, degrees)
                     ELSE test_pairs
    /\ h_pc' = "generated"
    /\ UNCHANGED <<harness, num_tests, degrees, compile_rc, sim_rc, sim_stdout, ret>>
    /\ UNCHANGED <<svars, pvars, others>>

\* subprocess.run(['iverilog', ...]); a nonzero return code raises.
Compile ==
    /\ h_pc = "generated"
    /\ \E rc \in ExitSamples :
        /\ compile_rc' = <<rc>>
        /\ IF rc # 0
               THEN ret' = Raised("RuntimeError") /\ h_pc' = "done"
               ELSE ret' = ret /\ h_pc' = "compiled"
    /\ UNCHANGED <<host_args, sim_rc, sim_stdout>>
    /\ UNCHANGED <<svars, pvars, others>>

\* subprocess.run(['vvp', out_file], ..., timeout=...): the run ends with
\* some exit status and output, or does not end within the timeout.
RunSimulation ==
    /\ h_pc = "compiled"
    /\ \/ /\ ret' = Raised("TimeoutExpired")
          /\ h_pc' = "done"
          /\ UNCHANGED <<sim_rc, sim_stdout>>
       \/ /\ sim_rc' \in {<<rc>> : rc \in ExitSamples}
          /\ sim_stdout' \in StdoutSamples
          /\ h_pc' = "simulated"
          /\ ret' = ret
    /\ UNCHANGED <<host_args, compile_rc>>
    /\ UNCHANGED <<svars, pvars, others>>

\* BatchLMULTesterParallel.test_batch after the simulation: the parse loop
\* and the return of results[:num_tests].
ParseParallel ==
    /\ harness = "parallel"
    /\ h_pc = "simulated"
    /\ LET r == parse_parallel(sim_stdout, ParsedParallel(<<>>)) IN
       ret' = IF r.status = "returned"
                  THEN ParsedParallel(Prefix(r.results, num_tests))
                  ELSE r
    /\ h_pc' = "done"
    /\ UNCHANGED <<host_args, compile_rc, sim_rc, sim_stdout>>
    /\ UNCHANGED <<svars, pvars, others>>

NextHost ==
    \/ GenerateTestbench \/ Compile \/ RunSimulation
    \/ ParseSingle \/ ParseParallel

SpecHost == InitHost /\ [][NextHost]_vars

\* ------------------------------------------------------ host-side claims

HexCount(lines) == Cardinality({k \in 1..Len(lines) : lines[k].kind = "hex"})
HasErrorLine(lines) == \E k \in 1..Len(lines) : lines[k].kind = "ERROR"

\* C15: when the number of result lines parsed from the simulator output
\* differs from the number of stimuli, test_batch of either harness
\* aborts with an error instead of returning.
C15_CountMismatchAborts ==
    (h_pc = "done" /\ sim_rc # <<>> /\ HexCount(sim_stdout) # num_tests) =>
        ret.status = "raised"

\* C16: whenever the simulator output contains a line beginning with
\* ERROR, test_batch of either harness raises and returns neither results
\* nor metrics, whatever result lines stand before or after that line.
C16_ErrorLineRaises ==
    (h_pc = "done" /\ sim_rc # <<>> /\ HasErrorLine(sim_stdout)) =>
        ret = Raised("RuntimeError")

C16_Witness ==
    /\ harness = "parallel" /\ h_pc = "done"
    /\ sim_stdout = <<HexLine(16256), ErrorLine, HexLine(16256)>>
    /\ ret = Raised("RuntimeError")

\* C17: a nonzero exit of either external step is terminal: after a
\* nonzero build status the simulation is never run and test_batch
\* raises; after a nonzero simulation status test_batch raises rather
\* than returning parsed results.
C17_NonzeroExitRaises ==
    /\ (compile_rc \notin {<<>>, <<0>>}) =>
           (sim_rc = <<>> /\ (h_pc = "done" => ret.status = "raised"))
    /\ (h_pc = "done" /\ sim_rc \notin {<<>>, <<0>>}) => ret.status = "raised"

\* ------------------------------------------- parallel harness: testbench

LITERAL_BITS == 4
PAR_TIMEOUT_PER_TEST == 30

\* Most clock edges an odd-numbered instance is slower than an even one.
MaxSkew == 1

total_ops == Len(test_pairs)
Instances == 0..(degrees - 1)
Positions == 0..(total_ops - 1)

\* Bit j of the sized literals {degrees}'b1111 and {degrees}'b0000: the
\* four written digits, truncated or zero-extended to degrees bits.
sized_ones == [j \in Instances |-> j < LITERAL_BITS]
sized_zeros == [j \in Instances |-> FALSE]

\* The guard's delay elapses after this many rising edges.
ParTimeoutEdges == (num_tests * PAR_TIMEOUT_PER_TEST) \div CLK_PERIOD

\* The device instances behind the ports: each accepts when its i_valid
\* is high (always ready) and shows the product p_latency_of(j) edges
\* later, its results in acceptance order.
p_latency_of(j) == p_latency + (IF j % 2 = 1 THEN p_skew ELSE 0)
p_o_valid(j) == p_pipe[j][p_latency_of(j)] # <<>>
p_o_p(j) == p_pipe[j][p_latency_of(j)][1].p

\* One clock edge of every instance, on the port values the instances
\* read; base is the position of the round those values belong to.
p_dut_step(seen_rstn, seen_valid, seen_a, seen_b, base) ==
    p_pipe' = [j \in Instances |-> [s \in 1..p_latency_of(j) |->
                  IF ~seen_rstn THEN <<>>
                  ELSE IF s > 1 THEN p_pipe[j][s - 1]
                  ELSE IF seen_valid[j]
                      THEN <<[p |-> lmul(seen_a[j], seen_b[j]), k |-> base + j]>>
                      ELSE <<>>]]

\* The for loop of the capture block from instance j on: the outputs it
\* stores, in order.
RECURSIVE capture_from(_)
capture_from(j) ==
    IF j >= degrees THEN <<>>
    ELSE IF p_o_valid(j) /\ p_o_ready[j]
        THEN <<p_pipe[j][p_latency_of(j)][1]>> \o capture_from(j + 1)
        ELSE capture_from(j + 1)

\* always @(posedge clk): the capture block.  A store at an index beyond
\* the results array has no effect; result_count still counts it.
p_capture_block ==
    LET got == capture_from(0) IN
    /\ p_results' = Prefix(p_results \o [k \in 1..Len(got) |-> got[k].p], total_ops)
    /\ p_result_of' = Prefix(p_result_of \o [k \in 1..Len(got) |-> got[k].k], total_ops)
    /\ result_count' = result_count + Len(got)
    /\ p_o_valid_before' = [j \in Instances |-> p_o_valid(j)]

\* The instances at one rising clock edge.  The main block writes rstn,
\* i_valid and the operand ports with blocking assignments at the edge
\* itself: the instances, woken by the same edge, read the ports as they
\* were before (dut_first) or as they are after those writes.
p_devices(dut_first) ==
    IF dut_first
        THEN p_dut_step(p_rstn, p_i_valid, p_i_a, p_i_b, current_index)
        ELSE p_dut_step(p_rstn', p_i_valid', p_i_a', p_i_b', current_index')

\* The clock and the capture block at one rising edge.
p_clock_edge ==
    /\ p_edges < ParTimeoutEdges
    /\ p_edges' = p_edges + 1
    /\ p_capture_block

\* wait (result_count >= num_tests); the displays; $finish
p_check_done ==
    IF result_count' >= num_tests
        THEN /\ p_pc' = "done"
             /\ sim_stdout' = [k \in 1..num_tests |-> HexLine(p_results'[k])]
             /\ sim_rc' = <<0>>
             /\ h_pc' = "simulated"
             /\ UNCHANGED <<host_args, compile_rc, ret>>
        ELSE /\ p_pc' = "wait"
             /\ UNCHANGED hvars

\* The while loop reached with current_index = ci: one more round on the
\* ports, or i_valid cleared and the wait for the results.
p_round(ci) ==
    /\ current_index' = ci
    /\ IF ci < total_ops
           THEN /\ p_i_valid' = sized_ones
                /\ p_i_a' = [x \in Positions |->
                                IF x < degrees /\ ci + x < total_ops
                                    THEN p_i_a[ci + x] ELSE p_i_a[x]]
                /\ p_i_b' = [x \in Positions |->
                                IF x < degrees /\ ci + x < total_ops
                                    THEN p_i_b[ci + x] ELSE p_i_b[x]]
                /\ presented' = Append(presented,
                                    [j \in Instances |->
                                        [valid |-> p_i_valid'[j],
                                         a |-> p_i_a'[j], b |-> p_i_b'[j]]])
                /\ p_pc' = "drive"
                /\ UNCHANGED hvars
           ELSE /\ p_i_valid' = sized_zeros
                /\ UNCHANGED <<p_i_a, p_i_b, presented>>
                /\ p_check_done

InitParallel ==
    /\ KernelIdle /\ BatchIdle /\ CodecIdle /\ BulkIdle /\ MatmulIdle
    /\ SingleIdle
    /\ harness = "parallel"
    /\ num_tests \in 1..MaxTests
    /\ test_pairs = [k \in 1..num_tests |-> Stimulus(k)]
    /\ degrees \in 1..MaxDegrees
    /\ h_pc = "called"
    /\ compile_rc = <<>> /\ sim_rc = <<>>
    /\ sim_stdout = <<>> /\ ret = NotCalled
    /\ p_latency \in 1..MaxLatency
    /\ p_skew \in 0..MaxSkew
    /\ p_pc = "none" /\ p_wait_left = 0 /\ p_edges = 0
    /\ p_rstn = FALSE /\ p_i_valid = <<>> /\ p_o_ready = <<>>
    /\ p_i_a = <<>> /\ p_i_b = <<>>
    /\ p_results = <<>> /\ result_count = 0 /\ current_index = 0
    /\ p_pipe = <<>> /\ presented = <<>> /\ p_result_of = <<>>
    /\ p_o_valid_before = <<>>

\* vvp starts: the initial assignments of the main block
StartSimulation ==
    /\ harness = "parallel"
    /\ h_pc = "compiled"
    /\ h_pc' = "simulation"
    /\ p_pc' = "reset" /\ p_wait_left' = degrees
    /\ p_rstn' = FALSE
    /\ p_i_valid' = sized_zeros
    /\ p_o_ready' = sized_ones
    /\ p_i_a' = [x \in Positions |-> test_pairs[x + 1][1]]
    /\ p_i_b' = [x \in Positions |-> test_pairs[x + 1][2]]
    /\ result_count' = 0 /\ current_index' = 0
    /\ p_pipe' = [j \in Instances |-> [s \in 1..p_latency_of(j) |-> <<>>]]
    /\ p_o_valid_before' = sized_zeros
    /\ UNCHANGED <<p_latency, p_skew, p_edges, p_results, presented, p_result_of>>
    /\ UNCHANGED <<host_args, compile_rc, sim_rc, sim_stdout, ret, svars, others>>

\* repeat(degrees) @(posedge clk); rstn = 1; then the first round
ParEdgeReset ==
    /\ p_pc = "reset"
    /\ IF p_wait_left > 1
           THEN /\ p_clock_edge
                /\ p_wait_left' = p_wait_left - 1
                /\ UNCHANGED <<p_pc, p_rstn, p_i_valid, p_i_a, p_i_b,
                               current_index, presented, hvars>>
                /\ p_devices(TRUE)
           ELSE /\ p_clock_edge
                /\ p_rstn' = TRUE
                /\ p_wait_left' = 0
                /\ p_round(current_index)
                /\ \E dut_first \in BOOLEAN : p_devices(dut_first)
    /\ UNCHANGED <<p_latency, p_skew, p_o_ready, svars, others>>

\* @(posedge clk) of a round; current_index += degrees; the next round
ParEdgeDrive ==
    /\ p_pc = "drive"
    /\ p_clock_edge
    /\ p_round(current_index + degrees)
    /\ UNCHANGED <<p_latency, p_skew, p_wait_left, p_rstn, p_o_ready, svars, others>>
    /\ \E dut_first \in BOOLEAN : p_devices(dut_first)

\* wait (result_count >= num_tests) across a clock edge
ParEdgeWait ==
    /\ p_pc = "wait"
    /\ p_clock_edge
    /\ p_check_done
    /\ UNCHANGED <<p_latency, p_skew, p_wait_left, p_rstn, p_o_ready, p_i_valid,
                   p_i_a, p_i_b, current_index, presented, svars, others>>
    /\ p_devices(TRUE)

\* #(num_tests * 30); $display("ERROR: Timeout"); $finish;
ParTimeoutGuard ==
    /\ p_pc \in {"reset", "drive", "wait"}
    /\ p_edges = ParTimeoutEdges
    /\ p_pc' = "timeout"
    /\ sim_stdout' = <<ErrorLine>>
    /\ sim_rc' = <<0>>
    /\ h_pc' = "simulated"
    /\ UNCHANGED <<host_args, compile_rc, ret, svars, others>>
    /\ UNCHANGED <<p_latency, p_skew, p_wait_left, p_edges, p_rstn, p_i_valid, p_o_ready,
                   p_i_a, p_i_b, p_results, result_count, current_index, p_pipe,
                   presented, p_result_of, p_o_valid_before>>

NextParallel ==
    \/ GenerateTestbench \/ Compile \/ StartSimulation
    \/ ParEdgeReset \/ ParEdgeDrive \/ ParEdgeWait \/ ParTimeoutGuard
    \/ ParseParallel

SpecParallel == InitParallel /\ [][NextParallel]_vars

\* ------------------------------------------------ parallel harness claims

\* ceil(n / d)
CeilDiv(n, d) == (n + d - 1) \div d

\* C18: for n stimuli and N identical always-ready instances the parallel
\* harness pads the stimuli to the next multiple of N, dispatches them in
\* ceil(n/N) rounds of N, and returns exactly n results, result k being
\* the device output for original stimulus k.
C18_ParallelReturnsAllInOrder ==
    (harness = "parallel" /\ h_pc = "done" /\ compile_rc = <<0>>
        /\ p_skew = 0) =>
        /\ total_ops = degrees * CeilDiv(num_tests, degrees)
        /\ ret.status = "returned"
        /\ Len(presented) = CeilDiv(num_tests, degrees)
        /\ ret.results = [k \in 1..num_tests |-> DeviceOutput(k)]

\* C19: for every N >= 1 and every round t, the main block puts i_valid
\* high on all N instances at the same clock edge, and instance j gets
\* the pair at position t*N + j of the padded sequence, with the original
\* operand values.
C19_AllInstancesDrivenEachRound ==
    harness = "parallel" =>
        \A t \in 1..Len(presented) : \A j \in Instances :
            presented[t][j] =
                [valid |-> TRUE,
                 a |-> test_pairs[(t - 1) * degrees + j + 1][1],
                 b |-> test_pairs[(t - 1) * degrees + j + 1][2]]

\* C20: the parallel harness stores an instance's output only on a clock
\* edge at which that instance's o_valid is high and was low at the
\* previous edge, and the capture index never exceeds the padded stimulus
\* count.
C20_ParallelCaptureEdgeDetected ==
    [][(harness = "parallel" /\ result_count' # result_count) =>
           /\ \A j \in Instances :
                  (p_o_valid(j) /\ p_o_ready[j]) => ~p_o_valid_before[j]
           /\ result_count' <= total_ops]_vars

\* C27: in the parallel harness the returned results are in the original
\* stimulus order whenever each instance delivers its own results in
\* acceptance order, also when the instances differ in latency: returned
\* result k is the output computed from stimulus k.
C27_OrderUnderInstanceFifo ==
    (harness = "parallel" /\ ret.status = "returned") =>
        \A k \in 1..Len(ret.results) :
            /\ p_result_of[k] = k - 1
            /\ ret.results[k] = DeviceOutput(k)

\* C30: BatchLMULTesterParallel.test_batch leaves the caller's stimulus
\* list unchanged: at every point of the call and after it the list passed
\* as test_pairs has the length and the elements it had at the call, also
\* when its length is not a multiple of the instance count.
C30_CallerListUnchanged ==
    harness = "parallel" =>
        /\ Len(test_pairs) = num_tests
        /\ test_pairs = [k \in 1..num_tests |-> Stimulus(k)]

\* C31: for every stimulus count n >= 1 and instance count N >= 1, against
\* always-ready instances of latency 1, the parallel testbench prints its
\* n results before the timeout guard prints ERROR: a simulation that has
\* ended has ended with the n result lines.
C31_ResultsBeforeTimeout ==
    (harness = "parallel" /\ p_latency = 1 /\ p_skew = 0
        /\ p_pc \in {"done", "timeout"}) =>
        /\ p_pc = "done"
        /\ Len(sim_stdout) = num_tests
        /\ \A k \in 1..num_tests : sim_stdout[k].kind = "hex"

\* C32: for all 16-bit a and b the sum fieldA + fieldB + 0x4080 is below
\* 2^17 and its CarrySelector is 0, 1 or 2, never 3: masking the selector
\* to two bits loses nothing, the 32-bit sum of the array kernel is the
\* same number, and the overflow branch is taken only with selector 2.
C32_SelectorNeverThree ==
    ret_ab # <<>> =>
        /\ FieldOf(a_bf16) + FieldOf(b_bf16) + BF16_OFFSET_MOD < 131072
        /\ CarrySelector(a_bf16, b_bf16) \in {0, 1, 2}
        /\ BitAnd(Shr(FieldOf(a_bf16) + FieldOf(b_bf16) + BF16_OFFSET_MOD, 15), 3)
               = CarrySelector(a_bf16, b_bf16)
        /\ np_sum_full(FieldOf(a_bf16), FieldOf(b_bf16))
               = FieldOf(a_bf16) + FieldOf(b_bf16) + BF16_OFFSET_MOD
        /\ (ExponentField(a_bf16) # 0 /\ ExponentField(b_bf16) # 0) =>
               (FieldOf(ret_ab[1]) = 32767
                   <=> (CarrySelector(a_bf16, b_bf16) = 2
                           \/ (CarrySelector(a_bf16, b_bf16) = 1
                                  /\ SumLowBits(a_bf16, b_bf16) = 32767)))

\* C32 witness: the two largest fields, 0x7FFF and 0x7FFF: the largest sum
\* there is, 0x1407E, has selector 2 and the call saturates.
C32_Witness ==
    /\ ret_ab # <<>>
    /\ FieldOf(a_bf16) = 32767 /\ FieldOf(b_bf16) = 32767
    /\ CarrySelector(a_bf16, b_bf16) = 2
    /\ FieldOf(ret_ab[1]) = 32767

\* C33: the encoding of 1.0 is an identity element on operands of nonzero
\* exponent field: for every such a, lmul(a, 0x3F80) is a and
\* lmul(a, 0xBF80) is a with its sign bit flipped.
C33_OneIsIdentity ==
    (ret_ab # <<>> /\ ExponentField(a_bf16) # 0) =>
        /\ b_bf16 = 16256 => ret_ab[1] = a_bf16
        /\ b_bf16 = 49024 => ret_ab[1] = BitXor(a_bf16, 32768)

\* C33 witness: a negative operand with a nonzero mantissa times -1.0
\* returned as the same field with the sign cleared.
C33_Witness ==
    /\ ret_ab # <<>>
    /\ b_bf16 = 49024
    /\ SignBit(a_bf16) = 1
    /\ ExponentField(a_bf16) \in 1..254
    /\ a_bf16 % 128 # 0
    /\ ret_ab[1] = a_bf16 - 32768

\* C21: the harness never backpressures the device: o_ready of every
\* instance is high at every clock edge of a run, in the single-instance
\* harness and in the parallel harness for every N >= 1.
C21_OReadyAlwaysHigh ==
    /\ harness = "single" => o_ready
    /\ (harness = "parallel" /\ p_pc # "none") =>
           \A j \in Instances : p_o_ready[j]

====
